---- MODULE Spec2Model ----
(***************************************************************************)
(* Row-stream aggregation pipeline of the hospital dashboard               *)
(* (backend/data/kis_data.py, backend/data/sql_queries.py).                *)
(*                                                                         *)
(* Representation.  Python lists and tuples are sequences (Python index i  *)
(* is position i+1).  Scalars of raw rows are strings; the integer flags   *)
(* 1 / 0 of the arrivals query are written "1" / "0", so that Python's     *)
(* mixed-type == (always False between a str and an int) is plain          *)
(* inequality of strings.  The Cyrillic labels of the queries are written  *)
(* in ASCII: "ORIT1" for 'ОРИТ №1', "Vypisan" for 'Выписан', and so on.    *)
(* A Record (CleanData / a serialized dict) is a function from field names *)
(* to values.                                                              *)
(***************************************************************************)
EXTENDS Naturals, Integers, Sequences, FiniteSets, TLC

None == "None"

\* ------------------------------------------------------------------------
\* sql_queries.py: QuerySets
\* ------------------------------------------------------------------------
ARRIVED == "ARRIVED"
SIGNOUT == "SIGNOUT"
DEADS == "DEADS"
DEPT_HOSP == "DEPT_HOSP"
OAR_ARRIVED_QUERY == "OAR_ARRIVED_QUERY"
OAR_MOVED_QUERY == "OAR_MOVED_QUERY"
OAR_CURRENT_QUERY == "OAR_CURRENT_QUERY"

DICT_KEYWORDS ==
  <<"arrived", "signout", "deads", "oar_arrived", "oar_moved", "oar_current", "oar_numbers">>

COLUMNS ==
  [ arrived       |-> <<"ch103", "clinic_only", "ch103_clinic", "singly",
                        "ZL", "foreign", "moscow", "undefined">>,
    signout       |-> <<"deads", "moved", "signout">>,
    deads_t       |-> <<"pat_fio", "ib_num", "sex", "age", "arriving_dt", "state",
                        "dept", "days", "diag_arr", "diag_dead">>,
    oar_arrived_t |-> <<"pat_fio", "ib_num", "age", "dept", "doc_fio", "diag_start">>,
    oar_moved_t   |-> <<"pat_fio", "ib_num", "age", "dept", "doc_fio", "move_date",
                        "from_dept", "diag_start">>,
    oar_current_t |-> <<"pat_fio", "ib_num", "age", "dept", "doc_fio", "days",
                        "diag_start">>,
    oar_amounts   |-> <<"oar1_d", "oar2_d", "oaronmk_d", "oaroim_d", "oar_d">> ]

DMK_COLUMNS == <<"arrived", "hosp", "refused", "signout", "deads", "reanimation">>

channels == <<"103", "Poliklinika", "103 Poliklinika", "samotek">>
statuses == <<"ZL", "Inogorodniy", "DMS", "Ne ukazano">>
signout_keywords == <<"Umer v stacionare", "Perevedyon v druguyu MO", "Vypisan">>

\* depts_mapping: localized department name -> serializer field.
depts_mapping ==
  [ d \in { "OAR ONMK", "Hirurgicheskoe", "OAR 1", "Priemnoe DP", "OAR", "Travmatologiya",
            "Neirohirurgicheskoe", "OAR OIM", "OAR 2", "Kardiologicheskoe",
            "Terapevticheskoe", "Endokrinologicheskoe", "Nevrologicheskoe ONMK",
            "Urologicheskoe", "Gnoinaya hirurgiya", "2 kardiologicheskoe (OIM)", "SKP",
            "Ginekologicheskoe", "Priemnoe", "Platnye uslugi", "Dnevnoi stacionar APC",
            "Sochetannaya travma", "Pulmonologicheskoe" } |->
      CASE d = "OAR ONMK" -> "oaronmk_d"
        [] d = "Hirurgicheskoe" -> "surgery_d"
        [] d = "OAR 1" -> "oar1_d"
        [] d = "Priemnoe DP" -> "dp_d"
        [] d = "OAR" -> "oar_d"
        [] d = "Travmatologiya" -> "trauma_d"
        [] d = "Neirohirurgicheskoe" -> "neurosurgery_d"
        [] d = "OAR OIM" -> "oaroim_d"
        [] d = "OAR 2" -> "oar2_d"
        [] d = "Kardiologicheskoe" -> "cardio_d"
        [] d = "Terapevticheskoe" -> "therapy_d"
        [] d = "Endokrinologicheskoe" -> "endo_d"
        [] d = "Nevrologicheskoe ONMK" -> "neuroonmk_d"
        [] d = "Urologicheskoe" -> "urology_d"
        [] d = "Gnoinaya hirurgiya" -> "pursurgery_d"
        [] d = "2 kardiologicheskoe (OIM)" -> "cardio2_d"
        [] d = "SKP" -> "skp_d"
        [] d = "Ginekologicheskoe" -> "gynecology_d"
        [] d = "Priemnoe" -> "emer_d"
        [] d = "Platnye uslugi" -> "multi_pay_d"
        [] d = "Dnevnoi stacionar APC" -> "apc_d"
        [] d = "Sochetannaya travma" -> "combine_d"
        [] OTHER -> "pulmonology_d" ]

\* list.insert(i, x) of Python: a negative i counts from the end, and the
\* position is clamped to the list.
ListInsert(s, i, x) ==
  LET p0 == IF i < 0 THEN Len(s) + i ELSE i
      p  == IF p0 < 0 THEN 0 ELSE IF p0 > Len(s) THEN Len(s) ELSE p0
  IN SubSeq(s, 1, p) \o <<x>> \o SubSeq(s, p + 1, Len(s))

queryset_for_dmk == <<ARRIVED, SIGNOUT, OAR_ARRIVED_QUERY, DEPT_HOSP>>

\* Variant: the two trailing queries submitted in the other order.
queryset_for_kis_swapped ==
  LET dmk_queries == ListInsert(SubSeq(queryset_for_dmk, 1, Len(queryset_for_dmk) - 1),
                                0 - 1, DEADS)
  IN dmk_queries \o <<OAR_CURRENT_QUERY, OAR_MOVED_QUERY>>

\* Variant: the last query is not submitted.
queryset_for_kis_short ==
  LET dmk_queries == ListInsert(SubSeq(queryset_for_dmk, 1, Len(queryset_for_dmk) - 1),
                                0 - 1, DEADS)
  IN dmk_queries \o <<OAR_MOVED_QUERY>>

queryset_for_kis ==
  LET dmk_queries == ListInsert(SubSeq(queryset_for_dmk, 1, Len(queryset_for_dmk) - 1),
                                0 - 1, DEADS)
  IN dmk_queries \o <<OAR_MOVED_QUERY, OAR_CURRENT_QUERY>>

\* The three ICU units both accumulators filter by ('ОРИТ №1', 'ОРИТ №2', 'ОРИТ №3').
oar_units == <<"ORIT1", "ORIT2", "ORIT3">>

\* ------------------------------------------------------------------------
\* kis_data.py: DataProcessing (row primitives, column mapper, assembler)
\* ------------------------------------------------------------------------
\* row[ind] of a Python tuple; IndexError when InRange is false.
InRange(row, ind) == IF ind >= 0 THEN ind < Len(row) ELSE 0 - ind <= Len(row)
At(row, ind) == IF ind >= 0 THEN row[ind + 1] ELSE row[Len(row) + ind + 1]

\* filter_dataset raises IndexError when some row has no field ind.
filter_raises(dataset, ind) == \E k \in 1..Len(dataset) : ~InRange(dataset[k], ind)

\* Variant: the comparison inverted.
filter_dataset_neq(dataset, ind, value) ==
  SelectSeq(dataset, LAMBDA row : At(row, ind) # value)

filter_dataset(dataset, ind, value) ==
  SelectSeq(dataset, LAMBDA row : At(row, ind) = value)

count_dataset_total(dataset) == Len(dataset)

RECURSIVE Flatten(_)
\* chain.from_iterable(map(tuple, dataset))
Flatten(dataset) ==
  IF dataset = <<>> THEN <<>> ELSE Head(dataset) \o Flatten(Tail(dataset))

\* s[start::2] of Python (start is 0 or 1).
Stride2(s, start) ==
  [k \in 1..((Len(s) - start + 1) \div 2) |-> s[start + 2 * (k - 1) + 1]]

\* slice_dataset raises KeyError when a label is not a key of the mapping.
slice_raises(dataset, mapping) ==
  \E k \in 1..Len(Stride2(Flatten(dataset), 0)) :
      Stride2(Flatten(dataset), 0)[k] \notin DOMAIN mapping

\* Variant: the values read from [2::2].
slice_dataset_shifted(dataset, mapping) ==
  LET stacked    == Flatten(dataset)
      ru_columns == Stride2(stacked, 0)
      en_columns == [k \in 1..Len(ru_columns) |-> mapping[ru_columns[k]]]
      counted_pats == Stride2(stacked, 2)
  IN <<en_columns, counted_pats>>

slice_dataset(dataset, mapping) ==
  LET stacked    == Flatten(dataset)
      ru_columns == Stride2(stacked, 0)
      en_columns == [k \in 1..Len(ru_columns) |-> mapping[ru_columns[k]]]
      counted_pats == Stride2(stacked, 1)
  IN <<en_columns, counted_pats>>

Min(a, b) == IF a < b THEN a ELSE b

\* CleanData(**dict(zip(columns, row))): zip stops at the shorter of the two,
\* and a repeated column keeps the last value paired with it.
CleanData(columns, row) ==
  LET n == Min(Len(columns), Len(row))
  IN [c \in {columns[k] : k \in 1..n} |->
        row[CHOOSE k \in 1..n : columns[k] = c /\ \A j \in (k + 1)..n : columns[j] # c]]

create_instance(columns, dataset) ==
  [k \in 1..Len(dataset) |-> CleanData(columns, dataset[k])]

\* ------------------------------------------------------------------------
\* Boundary collaborators whose code is outside the pipeline module
\* ------------------------------------------------------------------------
\* The fields the two DRF serializers declare; an attribute of the instance
\* that is not declared is not emitted.
KISDataFields ==
  {COLUMNS.arrived[k] : k \in 1..Len(COLUMNS.arrived)}
    \cup {COLUMNS.signout[k] : k \in 1..Len(COLUMNS.signout)}
    \cup {COLUMNS.oar_amounts[k] : k \in 1..Len(COLUMNS.oar_amounts)}
    \cup {depts_mapping[d] : d \in DOMAIN depts_mapping}

KISTableFields ==
  {COLUMNS.deads_t[k] : k \in 1..Len(COLUMNS.deads_t)}
    \cup {COLUMNS.oar_arrived_t[k] : k \in 1..Len(COLUMNS.oar_arrived_t)}
    \cup {COLUMNS.oar_moved_t[k] : k \in 1..Len(COLUMNS.oar_moved_t)}
    \cup {COLUMNS.oar_current_t[k] : k \in 1..Len(COLUMNS.oar_current_t)}

\* __serialize: Serializer(ready_dataset, many=True).data, one dict per instance.
serialize(ready_dataset, data_serializer) ==
  LET fields == IF data_serializer THEN KISDataFields ELSE KISTableFields
  IN [k \in 1..Len(ready_dataset) |->
        [f \in (DOMAIN ready_dataset[k]) \cap fields |-> ready_dataset[k][f]]]

\* The Failure Sentinel execute_query returns for a query that could not run.
Sentinel == << <<"Error", "detail">> >>

ArrivedSample ==
  << <<"1", "Kardiologicheskoe", "103", "ZL">>,
     <<"1", "Kardiologicheskoe", "Poliklinika", "DMS">>,
     <<"0", "Priemnoe", "103", "ZL">> >>

SignoutSample ==
  << <<"Hirurgicheskoe", "Umer v stacionare">>,
     <<"Kardiologicheskoe", "Vypisan">>,
     <<"Kardiologicheskoe", "Vypisan">>,
     <<"OAR 1", "Vypisan">> >>

\* A discharged row of a department the lookup table does not know.
SignoutUnmapped ==
  << <<"Kardiologicheskoe", "Vypisan">>, <<"Novoe otdelenie", "Vypisan">> >>

DeadsSample ==
  << <<"fio1", "1-24", "Muzh", "70", "01.01.2024 10:00", "tyazh", "ORIT1", "3", "I21", "I21.0">>,
     <<"fio2", "2-24", "Zhen", "81", "02.01.2024 11:00", "tyazh", "ORIT3", "5", "I63", "I63.3">>,
     <<"fio3", "3-24", "Zhen", "64", "02.01.2024 12:00", "sredn", "Kardiologicheskoe", "9",
       "I50", "I50.1">> >>

OarArrivedSample ==
  << <<"fio4", "4-24", "55", "ORIT1", "doc1", "I21">> >>

OarMovedSample ==
  << <<"fio5", "5-24", "61", "ORIT2", "doc2", "03.01.2024", "Kardiologicheskoe", "I20">>,
     <<"fio6", "6-24", "47", "ORIT2", "doc1", "03.01.2024", "Hirurgicheskoe", "K35">> >>

OarCurrentSample ==
  << <<"fio7", "7-24", "58", "ORIT1", "doc3", "2", "I21">>,
     <<"fio8", "8-24", "73", "ORIT3", "doc3", "4", "I63">>,
     <<"fio9", "9-24", "39", "OAR", "doc2", "1", "J18">> >>

DeptHospSample ==
  << <<"Terapiya", "12">>, <<"Hirurgiya", "7">>, <<"Stomatologiya", "1">> >>

\* db_conn.execute_query(query): the datasets the database may answer with.
cursor(query) ==
  {<<>>, Sentinel} \cup
    CASE query = ARRIVED -> {ArrivedSample}
      [] query = SIGNOUT -> {SignoutSample, SignoutUnmapped}
      [] query = DEADS -> {DeadsSample}
      [] query = OAR_ARRIVED_QUERY -> {OarArrivedSample}
      [] query = OAR_MOVED_QUERY -> {OarMovedSample}
      [] query = OAR_CURRENT_QUERY -> {OarCurrentSample}
      [] OTHER -> {DeptHospSample}

\* ------------------------------------------------------------------------
\* kis_data.py: KISDataProcessing (topic aggregators)
\* ------------------------------------------------------------------------
\* Variant: a keyword no row matches gets no entry.
count_values_nonzero(dataset, ind, keywords) ==
  SelectSeq([k \in 1..Len(keywords) |-> Len(filter_dataset(dataset, ind, keywords[k]))],
            LAMBDA n : n # 0)

count_values(dataset, ind, keywords) ==
  [k \in 1..Len(keywords) |-> Len(filter_dataset(dataset, ind, keywords[k]))]

RECURSIVE Distinct(_)
\* The keys of Counter(s), in the order of their first occurrence.
Distinct(s) ==
  IF s = <<>> THEN <<>>
  ELSE <<Head(s)>> \o SelectSeq(Distinct(Tail(s)), LAMBDA x : x # Head(s))

\* Counter(s).items()
CounterItems(s) ==
  [k \in 1..Len(Distinct(s)) |->
     <<Distinct(s)[k], Len(SelectSeq(s, LAMBDA x : x = Distinct(s)[k]))>>]

\* __arrived_process: the exception it raises, or None.
arrived_raises(arrived_dataset) ==
  IF filter_raises(arrived_dataset, 0) THEN "IndexError"
  ELSE IF filter_raises(filter_dataset(arrived_dataset, 0, "1"), 2)
            \/ filter_raises(filter_dataset(arrived_dataset, 0, "1"), 0 - 1)
       THEN "IndexError"
       ELSE None

\* Variant: the counts taken over every row, refused ones included.
arrived_process_unfiltered(arrived_dataset) ==
  LET sorted_channels_datasets == count_values(arrived_dataset, 2, channels)
      sorted_statuses_datasets == count_values(arrived_dataset, 0 - 1, statuses)
      summary_dataset == <<sorted_channels_datasets \o sorted_statuses_datasets>>
  IN serialize(create_instance(COLUMNS.arrived, summary_dataset), TRUE)

arrived_process(arrived_dataset) ==
  LET hosp_data == filter_dataset(arrived_dataset, 0, "1")
      sorted_channels_datasets == count_values(hosp_data, 2, channels)
      sorted_statuses_datasets == count_values(hosp_data, 0 - 1, statuses)
      summary_dataset == <<sorted_channels_datasets \o sorted_statuses_datasets>>
  IN serialize(create_instance(COLUMNS.arrived, summary_dataset), TRUE)

\* Variant: the departments counted over every row, whatever its outcome.
counted_signout_all(signout_dataset) ==
  LET items == CounterItems(signout_dataset)
  IN [k \in 1..Len(items) |-> <<items[k][1][1], items[k][2]>>]

\* (dept[0], cnt) for dept, cnt in Counter(signout_only).items()
counted_signout(signout_dataset) ==
  LET items == CounterItems(filter_dataset(signout_dataset, 1, "Vypisan"))
  IN [k \in 1..Len(items) |-> <<items[k][1][1], items[k][2]>>]

signout_raises(signout_dataset) ==
  IF filter_raises(signout_dataset, 1) THEN "IndexError"
  ELSE IF slice_raises(counted_signout(signout_dataset), depts_mapping) THEN "KeyError"
       ELSE None

\* Variant: the totals counted over the discharged rows only.
signout_process_filtered(signout_dataset) ==
  LET packed_data == slice_dataset(counted_signout(signout_dataset), depts_mapping)
      sorted_signout_dataset ==
        count_values(filter_dataset(signout_dataset, 1, "Vypisan"), 1, signout_keywords)
      summary_dataset == <<sorted_signout_dataset \o packed_data[2]>>
      summary_columns == COLUMNS.signout \o packed_data[1]
  IN serialize(create_instance(summary_columns, summary_dataset), TRUE)

signout_process(signout_dataset) ==
  LET packed_data == slice_dataset(counted_signout(signout_dataset), depts_mapping)
      sorted_signout_dataset == count_values(signout_dataset, 1, signout_keywords)
      summary_dataset == <<sorted_signout_dataset \o packed_data[2]>>
      summary_columns == COLUMNS.signout \o packed_data[1]
  IN serialize(create_instance(summary_columns, summary_dataset), TRUE)

\* [len(filter_dataset(dataset, ind, oar)) for oar in the three units]
oar_filtered(dataset, ind) == count_values(dataset, ind, oar_units)

deads_raises(deads_dataset) ==
  IF filter_raises(deads_dataset, 6) THEN "IndexError" ELSE None

\* Variant: the tuple is appended to the list the object already sees.
deads_oar_after_append(deads_dataset, old) ==
  IF oar_filtered(deads_dataset, 6) # <<>>
    THEN Append(old, oar_filtered(deads_dataset, 6)) ELSE old

\* __deads_process: the value it assigns to self.deads_oar (old when the walrus is falsy).
deads_oar_after(deads_dataset, old) ==
  IF oar_filtered(deads_dataset, 6) # <<>> THEN <<oar_filtered(deads_dataset, 6)>> ELSE old

\* Variant: the deaths listing goes through the summary serializer (the
\* default of __serialize) instead of the table serializer.
deads_process_data_serializer(deads_dataset) ==
  serialize(create_instance(COLUMNS.deads_t, deads_dataset), TRUE)

deads_process(deads_dataset) ==
  serialize(create_instance(COLUMNS.deads_t, deads_dataset), FALSE)

oar_raises(dataset) ==
  IF filter_raises(dataset, 3) THEN "IndexError" ELSE None

\* __oar_process: the class-level list after self.counted_oar.append([tuple(oar_nums)]).
counted_oar_after(dataset, old) ==
  IF oar_filtered(dataset, 3) # <<>> THEN Append(old, <<oar_filtered(dataset, 3)>>) ELSE old

oar_process(dataset, columns) ==
  serialize(create_instance(columns, dataset), FALSE)

\* Variant: an empty deaths buffer faults as well.
oar_count_raises_strict(living, deads) ==
  IF Len(living) < 3 \/ Len(deads) < 1 THEN "IndexError" ELSE None

\* oar_count: living_list[0..2] is read, so a shorter buffer is an IndexError.
oar_count_raises(living, deads) ==
  IF Len(living) < 3 THEN "IndexError" ELSE None

\* Variant: moved_nums and current_nums read from each other's entry.
oar_count_swapped(living, deads) ==
  LET oar_columns == COLUMNS.oar_amounts
      living_list == [k \in 1..Len(living) |-> create_instance(oar_columns, living[k])]
      deads_list  == create_instance(oar_columns, deads)
  IN << "arrived_nums" :> serialize(living_list[1], TRUE),
        "moved_nums"   :> serialize(living_list[3], TRUE),
        "current_nums" :> serialize(living_list[2], TRUE),
        "deads_nums"   :> serialize(deads_list, TRUE) >>

oar_count(living, deads) ==
  LET oar_columns == COLUMNS.oar_amounts
      living_list == [k \in 1..Len(living) |-> create_instance(oar_columns, living[k])]
      deads_list  == create_instance(oar_columns, deads)
  IN << "arrived_nums" :> serialize(living_list[1], TRUE),
        "moved_nums"   :> serialize(living_list[2], TRUE),
        "current_nums" :> serialize(living_list[3], TRUE),
        "deads_nums"   :> serialize(deads_list, TRUE) >>

\* list.index(x): the position (from 0) of the first element equal to x.
ListIndex(s, x) == (CHOOSE k \in 1..Len(s) : s[k] = x /\ \A j \in 1..(k - 1) : s[j] # x) - 1

\* {keywords[ready_dataset.index(dataset)]: dataset for dataset in ready_dataset}
keyed_result(keywords, ready_dataset) ==
  [kw \in {keywords[ListIndex(ready_dataset, ready_dataset[k]) + 1] : k \in 1..Len(ready_dataset)}
     |-> ready_dataset[CHOOSE k \in 1..Len(ready_dataset) :
                         keywords[ListIndex(ready_dataset, ready_dataset[k]) + 1] = kw]]

\* Variant: too few placeholders, range(6).
null_result_short(keywords) == CleanData(keywords, [i \in 1..6 |-> None])

\* dict(zip(keywords, [None for i in range(8)]))
null_result(keywords) == CleanData(keywords, [i \in 1..8 |-> None])

\* ------------------------------------------------------------------------
\* kis_data.py: DataForDMK
\* ------------------------------------------------------------------------
\* a | b of two dicts: the right operand wins.
DictMerge(a, b) ==
  [k \in (DOMAIN a) \cup (DOMAIN b) |-> IF k \in DOMAIN b THEN b[k] ELSE a[k]]

\* Variant: for ind == 1 the matching rows are reported instead of the others.
count_data_positive(dataset, ind, value) ==
  LET data == filter_dataset(dataset, ind, value)
      total_amount == count_dataset_total(dataset)
      positive_amount == Len(data)
      negative_amount == total_amount - positive_amount
  IN IF ind = 1 THEN <<total_amount, positive_amount>>
     ELSE <<total_amount, positive_amount, negative_amount>>

count_data(dataset, ind, value) ==
  LET data == filter_dataset(dataset, ind, value)
      total_amount == count_dataset_total(dataset)
      positive_amount == Len(data)
      negative_amount == total_amount - positive_amount
  IN IF ind = 1 THEN <<total_amount, negative_amount>>
     ELSE <<total_amount, positive_amount, negative_amount>>

get_arrived_data(arrived_dataset) ==
  CleanData(SubSeq(DMK_COLUMNS, 1, 3), count_data(arrived_dataset, 0, "1"))

\* 'Drugaya prichina' stands for the filter word 'Другая причина'.
get_signout_data(signout_dataset) ==
  CleanData(SubSeq(DMK_COLUMNS, 4, 5), count_data(signout_dataset, 1, "Drugaya prichina"))

get_reanimation_data(reanimation_dataset) ==
  DMK_COLUMNS[Len(DMK_COLUMNS)] :> count_dataset_total(reanimation_dataset)

\* Profiles.objects.all(): the profile names of the DMK database and their ids.
Profiles == << <<"Terapiya", 1>>, <<"Hirurgiya", 2>> >>

RECURSIVE get_dept_hosps(_)
\* One dict per (row, profile) pair whose profile name is the row's first field.
get_dept_hosps(dh_dataset) ==
  IF dh_dataset = <<>> THEN <<>>
  ELSE LET row == Head(dh_dataset)
           hits == SelectSeq(Profiles, LAMBDA o : o[1] = At(row, 0))
       IN [k \in 1..Len(hits) |-> [number |-> At(row, 1), profile |-> hits[k][2]]]
            \o get_dept_hosps(Tail(dh_dataset))

dept_hosps_raises(dh_dataset) ==
  IF Profiles # <<>> /\ \E k \in 1..Len(dh_dataset) :
        \/ ~InRange(dh_dataset[k], 0)
        \/ /\ \E j \in 1..Len(Profiles) : Profiles[j][1] = At(dh_dataset[k], 0)
           /\ ~InRange(dh_dataset[k], 1)
    THEN "IndexError" ELSE None

\* {i: None for i in self.dmk_cols}
null_main_data == [c \in {DMK_COLUMNS[k] : k \in 1..Len(DMK_COLUMNS)} |-> None]

\* {'dates': date.today()} | main_data
ready_main_data(main_data) == DictMerge("dates" :> "today", main_data)

\* ------------------------------------------------------------------------
\* State
\* ------------------------------------------------------------------------
VARIABLES
  inst,        \* class of the pipeline object in use: "KISDataProcessing" or "DataForDMK"
  query_sets,  \* kisdata_obj.query_sets
  conn,        \* kisdata_obj.db_conn.conn: "open" or None
  op,          \* the method being run (or last run) on the object
  pc,          \* position in that method: "idle", a step name, "done" or "raised"
  exc,         \* the exception that left the method, or None
  gen,         \* the generator of this run: "none", "created", "suspended", "finished"
  genPos,      \* number of datasets the generator of this run has yielded
  closeCalls,  \* calls of db_conn.close_connection during this run
  counted_oar, \* KISDataProcessing.counted_oar (class attribute, mutated in place)
  deads_oar,   \* self.deads_oar as the object sees it (class attribute [] until assigned)
  buf0,        \* Len(counted_oar) when the run started
  fed,         \* this run: <<aggregator, query, rows>> of every dataset handed over
  loc,         \* locals of create_ready_dicts / __collect_data
  ret,         \* the value the method returned
  saved,       \* this run: what serializer.save() wrote to the Persistence Store
  call,        \* a row primitive or aggregator applied on its own: function, arguments, outcome
  cache,       \* django.core.cache.cache: the values under the keys present
  req          \* every request's position in ensure_cashing and its local p_kis

pipe == <<inst, query_sets, conn, op, pc, exc, gen, genPos, closeCalls, counted_oar,
          deads_oar, buf0, fed, loc, ret, saved>>

\* What a pipeline run leaves alone.
aux == <<call, cache, req>>

vars == <<pipe, aux>>

\* A new run starts only while the living buffer holds at most MaxLeak entries.
MaxLeak == 3

NoLocals ==
  [arrived |-> <<>>, signout |-> <<>>, deads |-> <<>>, oar_arrived |-> <<>>,
   oar_moved |-> <<>>, oar_current |-> <<>>, oar_numbers |-> <<>>]

Terminal == pc \in {"idle", "done", "raised"}

\* Rows of a dataset handed to a row primitive or an aggregator on its own.
MaxRows == 3

\* Requests that reach ensure_cashing while the cache is being filled.
MaxReq == 3

\* No primitive applied yet.
NoCall == [fn |-> "none", args |-> <<>>, exc |-> None, out |-> <<>>]

\* A request that has not reached ensure_cashing; p_kis is the local of that
\* name, <<>> while unbound.
IdleReq == [pc |-> "idle", p_kis |-> <<>>]

\* KISDataProcessing(KISData(QuerySets().queryset_for_kis())), nothing run yet.
Init ==
  /\ inst = "KISDataProcessing"
  /\ query_sets = queryset_for_kis
  /\ conn \in {"open", None}
  /\ op = "none" /\ pc = "idle" /\ exc = None
  /\ gen = "none" /\ genPos = 0 /\ closeCalls = 0
  /\ counted_oar = <<>> /\ deads_oar = <<>>
  /\ buf0 = 0 /\ fed = <<>> /\ loc = NoLocals /\ ret = <<>> /\ saved = <<>>
  /\ call = NoCall
  /\ cache = <<>>
  /\ req = [r \in 1..MaxReq |-> IdleReq]

\* A new pipeline object over a new KISData: its connection may have failed.
\* The class attribute counted_oar is the same list for every object.
NewKisInstance ==
  /\ Terminal
  /\ inst' = "KISDataProcessing" /\ query_sets' = queryset_for_kis
  /\ conn' \in {"open", None}
  /\ op' = "none" /\ pc' = "idle" /\ exc' = None
  /\ gen' = "none" /\ genPos' = 0 /\ closeCalls' = 0
  /\ deads_oar' = <<>>
  /\ fed' = <<>> /\ loc' = NoLocals /\ ret' = <<>> /\ saved' = <<>>
  /\ buf0' = Len(counted_oar)
  /\ UNCHANGED counted_oar
  /\ UNCHANGED aux

\* Variant: the connection is closed together with the last yield.
GenYields_eager_close(agg, rows) ==
  /\ genPos < Len(query_sets)
  /\ rows \in cursor(query_sets[genPos + 1])
  /\ gen' = "suspended" /\ genPos' = genPos + 1
  /\ fed' = Append(fed, [agg |-> agg, query |-> query_sets[genPos + 1], rows |-> rows])
  /\ closeCalls' = IF genPos + 1 = Len(query_sets) THEN closeCalls + 1 ELSE closeCalls

\* next(gen) of get_data_generator, yielding rows to the aggregator agg.
GenYields(agg, rows) ==
  /\ genPos < Len(query_sets)
  /\ rows \in cursor(query_sets[genPos + 1])
  /\ gen' = "suspended" /\ genPos' = genPos + 1
  /\ fed' = Append(fed, [agg |-> agg, query |-> query_sets[genPos + 1], rows |-> rows])
  /\ UNCHANGED closeCalls

\* next(gen) after the last query: the loop ends, the connection is closed and
\* StopIteration leaves the method.
GenExhausted ==
  /\ genPos >= Len(query_sets)
  /\ gen' = "finished" /\ closeCalls' = closeCalls + 1
  /\ pc' = "raised" /\ exc' = "StopIteration"
  /\ UNCHANGED <<genPos, fed, loc, counted_oar, deads_oar, ret>>

\* create_ready_dicts, up to the first next(gen).
KisStart ==
  /\ inst = "KISDataProcessing" /\ Terminal
  /\ Len(counted_oar) <= MaxLeak
  /\ op' = "create_ready_dicts" /\ exc' = None
  /\ genPos' = 0 /\ closeCalls' = 0 /\ fed' = <<>> /\ loc' = NoLocals /\ saved' = <<>>
  /\ buf0' = Len(counted_oar)
  /\ IF conn = None
       THEN pc' = "done" /\ ret' = <<null_result(DICT_KEYWORDS)>> /\ gen' = "none"
       ELSE pc' = "arrived" /\ ret' = <<>> /\ gen' = "created"
  /\ UNCHANGED <<inst, query_sets, conn, counted_oar, deads_oar>>
  /\ UNCHANGED aux

KisArrived ==
  /\ op = "create_ready_dicts" /\ pc = "arrived"
  /\ IF genPos >= Len(query_sets) THEN GenExhausted
     ELSE \E rows \in cursor(query_sets[genPos + 1]) :
            /\ GenYields("arrived", rows)
            /\ IF arrived_raises(rows) # None
                 THEN pc' = "raised" /\ exc' = arrived_raises(rows) /\ UNCHANGED loc
                 ELSE /\ pc' = "signout" /\ UNCHANGED exc
                      /\ loc' = [loc EXCEPT !.arrived = arrived_process(rows)]
            /\ UNCHANGED <<counted_oar, deads_oar, ret>>
  /\ UNCHANGED <<inst, query_sets, conn, op, buf0, saved>>
  /\ UNCHANGED aux

KisSignout ==
  /\ op = "create_ready_dicts" /\ pc = "signout"
  /\ IF genPos >= Len(query_sets) THEN GenExhausted
     ELSE \E rows \in cursor(query_sets[genPos + 1]) :
            /\ GenYields("signout", rows)
            /\ IF signout_raises(rows) # None
                 THEN pc' = "raised" /\ exc' = signout_raises(rows) /\ UNCHANGED loc
                 ELSE /\ pc' = "deads" /\ UNCHANGED exc
                      /\ loc' = [loc EXCEPT !.signout = signout_process(rows)]
            /\ UNCHANGED <<counted_oar, deads_oar, ret>>
  /\ UNCHANGED <<inst, query_sets, conn, op, buf0, saved>>
  /\ UNCHANGED aux

KisDeads ==
  /\ op = "create_ready_dicts" /\ pc = "deads"
  /\ IF genPos >= Len(query_sets) THEN GenExhausted
     ELSE \E rows \in cursor(query_sets[genPos + 1]) :
            /\ GenYields("deads", rows)
            /\ IF deads_raises(rows) # None
                 THEN /\ pc' = "raised" /\ exc' = deads_raises(rows)
                      /\ UNCHANGED <<loc, deads_oar>>
                 ELSE /\ pc' = "oar_arrived" /\ UNCHANGED exc
                      /\ deads_oar' = deads_oar_after(rows, deads_oar)
                      /\ loc' = [loc EXCEPT !.deads = deads_process(rows)]
            /\ UNCHANGED <<counted_oar, ret>>
  /\ UNCHANGED <<inst, query_sets, conn, op, buf0, saved>>
  /\ UNCHANGED aux

\* One of the three __oar_process calls: here is its position, there the next one.
KisOarStep(here, there, columns) ==
  /\ op = "create_ready_dicts" /\ pc = here
  /\ IF genPos >= Len(query_sets) THEN GenExhausted
     ELSE \E rows \in cursor(query_sets[genPos + 1]) :
            /\ GenYields(here, rows)
            /\ IF oar_raises(rows) # None
                 THEN /\ pc' = "raised" /\ exc' = oar_raises(rows)
                      /\ UNCHANGED <<loc, counted_oar>>
                 ELSE /\ pc' = there /\ UNCHANGED exc
                      /\ counted_oar' = counted_oar_after(rows, counted_oar)
                      /\ loc' = [loc EXCEPT ![here] = oar_process(rows, columns)]
            /\ UNCHANGED <<deads_oar, ret>>
  /\ UNCHANGED <<inst, query_sets, conn, op, buf0, saved>>
  /\ UNCHANGED aux

KisOarArrived == KisOarStep("oar_arrived", "oar_moved", COLUMNS.oar_arrived_t)
KisOarMoved == KisOarStep("oar_moved", "oar_current", COLUMNS.oar_moved_t)
KisOarCurrent == KisOarStep("oar_current", "oar_numbers", COLUMNS.oar_current_t)

\* The tail of create_ready_dicts: oar_count(), the keyed result, return.
KisFinish ==
  /\ op = "create_ready_dicts" /\ pc = "oar_numbers"
  /\ IF oar_count_raises(counted_oar, deads_oar) # None
       THEN /\ pc' = "raised" /\ exc' = oar_count_raises(counted_oar, deads_oar)
            /\ UNCHANGED <<loc, ret>>
       ELSE /\ pc' = "done" /\ UNCHANGED exc
            /\ loc' = [loc EXCEPT !.oar_numbers = oar_count(counted_oar, deads_oar)]
            /\ ret' = <<keyed_result(DICT_KEYWORDS,
                          <<loc.arrived, loc.signout, loc.deads, loc.oar_arrived,
                            loc.oar_moved, loc.oar_current,
                            oar_count(counted_oar, deads_oar)>>)>>
  /\ UNCHANGED <<inst, query_sets, conn, op, gen, genPos, closeCalls, counted_oar,
                 deads_oar, buf0, fed, saved>>
  /\ UNCHANGED aux

\* oar_count() called on the object by itself, outside create_ready_dicts.
OarCountCall ==
  /\ inst = "KISDataProcessing" /\ Terminal
  /\ op' = "oar_count"
  /\ IF oar_count_raises(counted_oar, deads_oar) # None
       THEN pc' = "raised" /\ exc' = oar_count_raises(counted_oar, deads_oar) /\ ret' = <<>>
       ELSE pc' = "done" /\ exc' = None /\ ret' = oar_count(counted_oar, deads_oar)
  /\ fed' = <<>> /\ loc' = NoLocals /\ saved' = <<>>
  /\ buf0' = Len(counted_oar)
  /\ UNCHANGED <<inst, query_sets, conn, gen, genPos, closeCalls, counted_oar, deads_oar>>
  /\ UNCHANGED aux

\* ------------------------------------------------------------------------
\* DataForDMK.save_to_dmk
\* ------------------------------------------------------------------------
DmkLocals ==
  [arrived |-> <<>>, signout |-> <<>>, deads |-> <<>>, main_data |-> <<>>,
   accum_data |-> <<>>, main_res |-> None, accum_res |-> <<>>, i |-> 0,
   answers |-> <<>>]

\* What the Persistence Store answers to is_valid(raise_exception=True) and save().
PersistOutcomes == {"saved", "ValidationError", "IntegrityError"}

\* Variant: the try statement around the loop, so that a rejection ends it.
save_accumulated_turn_abort(l, outcome) ==
  IF outcome = "saved"
    THEN [l EXCEPT !.i = l.i + 1,
                   !.accum_res = Append(l.accum_res, l.accum_data[l.i + 1]),
                   !.answers = Append(l.answers, outcome)]
    ELSE [l EXCEPT !.i = Len(l.accum_data), !.answers = Append(l.answers, outcome)]

\* One turn of the loop of save_accumulated on the locals l: the row is appended
\* when the store accepts it; a rejection is caught and logged inside the turn.
save_accumulated_turn(l, outcome) ==
  IF outcome = "saved"
    THEN [l EXCEPT !.i = l.i + 1,
                   !.accum_res = Append(l.accum_res, l.accum_data[l.i + 1]),
                   !.answers = Append(l.answers, outcome)]
    ELSE [l EXCEPT !.i = l.i + 1, !.answers = Append(l.answers, outcome)]

\* DataForDMK(KISData(QuerySets().queryset_for_dmk())), as initialize_today builds it.
NewDmkInstance ==
  /\ Terminal
  /\ inst' = "DataForDMK" /\ query_sets' = queryset_for_dmk
  /\ conn' \in {"open", None}
  /\ op' = "none" /\ pc' = "idle" /\ exc' = None
  /\ gen' = "none" /\ genPos' = 0 /\ closeCalls' = 0
  /\ deads_oar' = <<>>
  /\ fed' = <<>> /\ loc' = DmkLocals /\ ret' = <<>> /\ saved' = <<>>
  /\ buf0' = Len(counted_oar)
  /\ UNCHANGED counted_oar
  /\ UNCHANGED aux

\* save_to_dmk -> __collect_data, up to the first next(gen).  Without a
\* connection main_data is the all-None dict and the return statement reads the
\* local dh_dataset, which was never bound.
DmkStart ==
  /\ inst = "DataForDMK" /\ Terminal
  /\ op' = "save_to_dmk"
  /\ genPos' = 0 /\ closeCalls' = 0 /\ fed' = <<>> /\ saved' = <<>> /\ ret' = <<>>
  /\ buf0' = Len(counted_oar)
  /\ IF conn = None
       THEN /\ pc' = "raised" /\ exc' = "UnboundLocalError"
            /\ loc' = [DmkLocals EXCEPT !.main_data = null_main_data] /\ gen' = "none"
       ELSE pc' = "d_arrived" /\ exc' = None /\ loc' = DmkLocals /\ gen' = "created"
  /\ UNCHANGED <<inst, query_sets, conn, counted_oar, deads_oar>>
  /\ UNCHANGED aux

DmkArrived ==
  /\ op = "save_to_dmk" /\ pc = "d_arrived"
  /\ IF genPos >= Len(query_sets) THEN GenExhausted
     ELSE \E rows \in cursor(query_sets[genPos + 1]) :
            /\ GenYields("get_arrived_data", rows)
            /\ IF filter_raises(rows, 0)
                 THEN pc' = "raised" /\ exc' = "IndexError" /\ UNCHANGED loc
                 ELSE /\ pc' = "d_signout" /\ UNCHANGED exc
                      /\ loc' = [loc EXCEPT !.arrived = get_arrived_data(rows)]
            /\ UNCHANGED <<counted_oar, deads_oar, ret>>
  /\ UNCHANGED <<inst, query_sets, conn, op, buf0, saved>>
  /\ UNCHANGED aux

DmkSignout ==
  /\ op = "save_to_dmk" /\ pc = "d_signout"
  /\ IF genPos >= Len(query_sets) THEN GenExhausted
     ELSE \E rows \in cursor(query_sets[genPos + 1]) :
            /\ GenYields("get_signout_data", rows)
            /\ IF filter_raises(rows, 1)
                 THEN pc' = "raised" /\ exc' = "IndexError" /\ UNCHANGED loc
                 ELSE /\ pc' = "d_reanimation" /\ UNCHANGED exc
                      /\ loc' = [loc EXCEPT !.signout = get_signout_data(rows)]
            /\ UNCHANGED <<counted_oar, deads_oar, ret>>
  /\ UNCHANGED <<inst, query_sets, conn, op, buf0, saved>>
  /\ UNCHANGED aux

DmkReanimation ==
  /\ op = "save_to_dmk" /\ pc = "d_reanimation"
  /\ IF genPos >= Len(query_sets) THEN GenExhausted
     ELSE \E rows \in cursor(query_sets[genPos + 1]) :
            /\ GenYields("get_reanimation_data", rows)
            /\ pc' = "d_dept_hosps" /\ UNCHANGED exc
            /\ loc' = [loc EXCEPT !.deads = get_reanimation_data(rows)]
            /\ UNCHANGED <<counted_oar, deads_oar, ret>>
  /\ UNCHANGED <<inst, query_sets, conn, op, buf0, saved>>
  /\ UNCHANGED aux

\* The last pull of __collect_data and its return value.
DmkDeptHosps ==
  /\ op = "save_to_dmk" /\ pc = "d_dept_hosps"
  /\ IF genPos >= Len(query_sets) THEN GenExhausted
     ELSE \E rows \in cursor(query_sets[genPos + 1]) :
            /\ GenYields("get_dept_hosps", rows)
            /\ IF dept_hosps_raises(rows) # None
                 THEN pc' = "raised" /\ exc' = dept_hosps_raises(rows) /\ UNCHANGED loc
                 ELSE /\ pc' = "save_main" /\ UNCHANGED exc
                      /\ loc' = [loc EXCEPT
                           !.main_data = ready_main_data(
                              DictMerge(DictMerge(loc.arrived, loc.signout), loc.deads)),
                           !.accum_data = get_dept_hosps(rows)]
            /\ UNCHANGED <<counted_oar, deads_oar, ret>>
  /\ UNCHANGED <<inst, query_sets, conn, op, buf0, saved>>
  /\ UNCHANGED aux

\* save_main: a rejection is caught and logged, and save_main returns None;
\* an accepted record is saved by both save() calls.
DmkSaveMain ==
  /\ op = "save_to_dmk" /\ pc = "save_main"
  /\ \E outcome \in PersistOutcomes :
       IF outcome = "saved"
         THEN /\ saved' = saved \o <<loc.main_data, loc.main_data>>
              /\ loc' = [loc EXCEPT !.main_res = loc.main_data,
                                    !.answers = Append(loc.answers, outcome)]
         ELSE /\ saved' = saved
              /\ loc' = [loc EXCEPT !.main_res = None,
                                    !.answers = Append(loc.answers, outcome)]
  /\ pc' = "save_accum"
  /\ UNCHANGED <<inst, query_sets, conn, op, exc, gen, genPos, closeCalls, counted_oar,
                 deads_oar, buf0, fed, ret>>
  /\ UNCHANGED aux

\* save_accumulated: one turn of its loop, or its return and that of save_to_dmk.
DmkSaveAccum ==
  /\ op = "save_to_dmk" /\ pc = "save_accum"
  /\ IF loc.i < Len(loc.accum_data)
       THEN /\ \E outcome \in PersistOutcomes :
                 /\ loc' = save_accumulated_turn(loc, outcome)
                 /\ saved' = IF outcome = "saved"
                               THEN saved \o <<loc.accum_data[loc.i + 1],
                                               loc.accum_data[loc.i + 1]>>
                               ELSE saved
            /\ UNCHANGED <<pc, ret>>
       ELSE /\ pc' = "done" /\ ret' = <<loc.main_res, loc.accum_res>>
            /\ UNCHANGED <<loc, saved>>
  /\ UNCHANGED <<inst, query_sets, conn, op, exc, gen, genPos, closeCalls, counted_oar,
                 deads_oar, buf0, fed>>
  /\ UNCHANGED aux

Next ==
  \/ NewKisInstance
  \/ KisStart
  \/ KisArrived
  \/ KisSignout
  \/ KisDeads
  \/ KisOarArrived
  \/ KisOarMoved
  \/ KisOarCurrent
  \/ KisFinish
  \/ OarCountCall
  \/ NewDmkInstance
  \/ DmkStart
  \/ DmkArrived
  \/ DmkSignout
  \/ DmkReanimation
  \/ DmkDeptHosps
  \/ DmkSaveMain
  \/ DmkSaveAccum

Spec == Init /\ [][Next]_vars

\* ------------------------------------------------------------------------
\* pg_processing/kis_data.py: DataProcessing.error_check
\* ------------------------------------------------------------------------
\* dataset[0][0] of a dataset with no row, or with an empty first row.
error_check_raises(dataset) ==
  IF dataset = <<>> THEN "IndexError"
  ELSE IF ~InRange(dataset[1], 0) THEN "IndexError" ELSE None

\* Python's True is written "True"; with no marker the function falls off its
\* end and returns None.
error_check(dataset) ==
  IF At(dataset[1], 0) = "Error" THEN "True" ELSE None

\* ------------------------------------------------------------------------
\* The row primitives and the two counting aggregators applied on their own
\* ------------------------------------------------------------------------
\* Every list of at most n elements of S.
SeqsUpTo(S, n) == UNION {[1..m -> S] : m \in 0..n}

\* Rows of one or two fields, and the datasets made of them.
GenericRows == UNION {[1..m -> {"a", "b"}] : m \in 1..2}
GenericDatasets == SeqsUpTo(GenericRows, MaxRows)
KeywordLists == {<<>>, <<"a">>, <<"a", "b">>, <<"c", "a", "b">>, <<"a", "a">>}

\* (label, value) pairs as Counter.items() gives them to slice_dataset.
PairRows ==
  {<<l, v>> : l \in {"OAR 1", "Hirurgicheskoe", "Novoe otdelenie"}, v \in {1, 2}}

\* Rows shorter than, as long as and longer than a column set.
CreateRows ==
  {SubSeq(w, 1, n) : w \in {<<"a", "b", "c", "d">>, <<"d", "c", "b", "a">>}, n \in 2..4}

\* Datasets whose first row does or does not start with the marker.
ErrorDatasets ==
  GenericDatasets \cup
    {Sentinel, <<Sentinel[1], <<"a">>>>, << <<"a">>, Sentinel[1]>>, << <<"a", "Error">> >>}

\* Rows of the arrivals query: flag, department, channel, patient type.
ArrivedRows ==
  {<<f, "Kardiologicheskoe", c, s>> :
      f \in {"1", "0"}, c \in {"103", "Poliklinika"}, s \in {"ZL", "NR"}}

\* Rows of the discharges query: department, outcome.
SignoutRows ==
  {<<d, o>> : d \in {"Hirurgicheskoe", "OAR 1", "Novoe otdelenie"},
              o \in {signout_keywords[k] : k \in 1..Len(signout_keywords)}}

\* Each application is a call of its own: nothing of one call reaches the next.
CallFilterDataset ==
  /\ call = NoCall
  /\ \E dataset \in GenericDatasets, ind \in {0, 1, 0 - 1}, value \in {"a", "b", "c"} :
       call' = [fn |-> "filter_dataset", args |-> <<dataset, ind, value>>,
                exc |-> IF filter_raises(dataset, ind) THEN "IndexError" ELSE None,
                out |-> IF filter_raises(dataset, ind) THEN <<>>
                        ELSE filter_dataset(dataset, ind, value)]
  /\ UNCHANGED <<pipe, cache, req>>

\* With no keyword the comprehension never calls the filter.
CallCountValues ==
  /\ call = NoCall
  /\ \E dataset \in GenericDatasets, ind \in {0, 1, 0 - 1}, keywords \in KeywordLists :
       LET raises == keywords # <<>> /\ filter_raises(dataset, ind)
       IN call' = [fn |-> "count_values", args |-> <<dataset, ind, keywords>>,
                   exc |-> IF raises THEN "IndexError" ELSE None,
                   out |-> IF raises THEN <<>> ELSE count_values(dataset, ind, keywords)]
  /\ UNCHANGED <<pipe, cache, req>>

CallSliceDataset ==
  /\ call = NoCall
  /\ \E dataset \in SeqsUpTo(PairRows, MaxRows) :
       LET raises == slice_raises(dataset, depts_mapping)
       IN call' = [fn |-> "slice_dataset", args |-> <<dataset>>,
                   exc |-> IF raises THEN "KeyError" ELSE None,
                   out |-> IF raises THEN <<>> ELSE slice_dataset(dataset, depts_mapping)]
  /\ UNCHANGED <<pipe, cache, req>>

\* create_instance has no raise of its own: zip pairs what it can.
CallCreateInstance ==
  /\ call = NoCall
  /\ \E columns \in {COLUMNS.signout, COLUMNS.oar_amounts},
        dataset \in SeqsUpTo(CreateRows, MaxRows) :
       call' = [fn |-> "create_instance", args |-> <<columns, dataset>>,
                exc |-> None, out |-> create_instance(columns, dataset)]
  /\ UNCHANGED <<pipe, cache, req>>

CallErrorCheck ==
  /\ call = NoCall
  /\ \E dataset \in ErrorDatasets :
       call' = [fn |-> "error_check", args |-> <<dataset>>,
                exc |-> error_check_raises(dataset),
                out |-> IF error_check_raises(dataset) # None THEN <<>>
                        ELSE <<error_check(dataset)>>]
  /\ UNCHANGED <<pipe, cache, req>>

CallArrivedProcess ==
  /\ call = NoCall
  /\ \E dataset \in SeqsUpTo(ArrivedRows, MaxRows) :
       call' = [fn |-> "arrived_process", args |-> <<dataset>>,
                exc |-> arrived_raises(dataset),
                out |-> IF arrived_raises(dataset) # None THEN <<>>
                        ELSE arrived_process(dataset)]
  /\ UNCHANGED <<pipe, cache, req>>

CallSignoutProcess ==
  /\ call = NoCall
  /\ \E dataset \in SeqsUpTo(SignoutRows, MaxRows) :
       call' = [fn |-> "signout_process", args |-> <<dataset>>,
                exc |-> signout_raises(dataset),
                out |-> IF signout_raises(dataset) # None THEN <<>>
                        ELSE signout_process(dataset)]
  /\ UNCHANGED <<pipe, cache, req>>

\* Rows of the deaths query (ten columns, the unit at index 6) and of the three
\* intensive-care queries (six, eight and seven columns, the unit at index 3).
DeadsRows ==
  {[DeadsSample[1] EXCEPT ![1] = n, ![7] = u] :
      n \in {"fio1", "fio2"}, u \in {"ORIT1", "ORIT3", "Kardiologicheskoe"}}

OarRows(columns) ==
  LET sample == IF columns = COLUMNS.oar_arrived_t THEN OarArrivedSample[1]
                ELSE IF columns = COLUMNS.oar_moved_t THEN OarMovedSample[1]
                ELSE OarCurrentSample[1]
  IN {[sample EXCEPT ![1] = n, ![4] = u] :
        n \in {"fio1", "fio2"}, u \in {"ORIT1", "ORIT2", "OAR"}}

\* __deads_process on a fresh instance: the listing it returns and the deaths
\* buffer the instance holds afterwards.
CallDeadsProcess ==
  /\ call = NoCall
  /\ \E dataset \in SeqsUpTo(DeadsRows, MaxRows) :
       call' = [fn |-> "deads_process", args |-> <<dataset>>,
                exc |-> deads_raises(dataset),
                out |-> IF deads_raises(dataset) # None THEN <<>>
                        ELSE <<deads_process(dataset), deads_oar_after(dataset, <<>>)>>]
  /\ UNCHANGED <<pipe, cache, req>>

\* __oar_process with one of the three column sets create_ready_dicts passes:
\* the listing it returns and counted_oar after the append.
CallOarProcess ==
  /\ call = NoCall
  /\ \E columns \in {COLUMNS.oar_arrived_t, COLUMNS.oar_moved_t, COLUMNS.oar_current_t} :
       \E dataset \in SeqsUpTo(OarRows(columns), MaxRows) :
         call' = [fn |-> "oar_process", args |-> <<dataset, columns>>,
                  exc |-> oar_raises(dataset),
                  out |-> IF oar_raises(dataset) # None THEN <<>>
                          ELSE <<oar_process(dataset, columns),
                                 counted_oar_after(dataset, <<>>)>>]
  /\ UNCHANGED <<pipe, cache, req>>

\* ------------------------------------------------------------------------
\* pg_processing: sql_queries.py (QuerySets) and the aggregators of kis_data.py
\* ------------------------------------------------------------------------
\* COLUMNS of pg_processing has the one key 'arrived'; QuerySets there has no
\* attribute signout and no attribute profiles_mapping.
pg_COLUMNS ==
  [ arrived |-> <<"ch103", "clinic_only", "ch103_clinic", "singly",
                  "ZL", "foreign", "moscow", "undefined">> ]

pg_channels == <<"103", "Poliklinika", "103 Poliklinika", "Samotek">>
pg_statuses == <<"ZL", "Inogorodnie", "Moskvichi", "ne ukazano">>

pg_queryset_for_dmk == <<ARRIVED, SIGNOUT, OAR_ARRIVED_QUERY>>

pg_queryset_for_kis ==
  LET dmk_queries == ListInsert(ListInsert(pg_queryset_for_dmk, 2, DEADS), 1, DEPT_HOSP)
  IN dmk_queries \o <<OAR_CURRENT_QUERY, OAR_MOVED_QUERY>>

\* create_ready_dicts: the aggregator its n-th next(self.kis_generator) feeds,
\* with the query that aggregator is written for.
pg_create_ready_dicts_calls ==
  << [agg |-> "arrived_process",   topic |-> ARRIVED],
     [agg |-> "dept_hosp_process", topic |-> DEPT_HOSP],
     [agg |-> "signout_process",   topic |-> SIGNOUT],
     [agg |-> "deads_process",     topic |-> DEADS],
     [agg |-> "oar_process",       topic |-> OAR_ARRIVED_QUERY],
     [agg |-> "oar_process",       topic |-> OAR_MOVED_QUERY],
     [agg |-> "oar_process",       topic |-> OAR_CURRENT_QUERY] >>

\* An aggregator call: the exception it ends with (or None), the calls of
\* error_check and of row primitives it has made on the pulled dataset or on
\* rows taken from it, in order, and the value it returns.
PgOutcome(e, t, o) == [exc |-> e, trace |-> t, out |-> o]

pg_arrived_process(arrived_dataset) ==
  IF error_check_raises(arrived_dataset) # None
    THEN PgOutcome("IndexError", <<"error_check">>, <<>>)
  ELSE IF error_check(arrived_dataset) = "True"
    THEN PgOutcome(None, <<"error_check">>,
           serialize(create_instance(pg_COLUMNS.arrived,
                       << [k \in 1..(Len(pg_channels) + Len(pg_statuses)) |-> 0] >>), TRUE))
  ELSE IF filter_raises(arrived_dataset, 0)
    THEN PgOutcome("IndexError", <<"error_check", "filter_dataset">>, <<>>)
  ELSE LET hosp_data == filter_dataset(arrived_dataset, 0, "1")
       IN IF filter_raises(hosp_data, 2)
            THEN PgOutcome("IndexError", <<"error_check", "filter_dataset", "count_values">>,
                           <<>>)
            ELSE PgOutcome(None,
                   <<"error_check", "filter_dataset", "count_values", "count_values">>,
                   serialize(create_instance(pg_COLUMNS.arrived,
                     << count_values(hosp_data, 2, pg_channels)
                          \o count_values(hosp_data, 0 - 1, pg_statuses) >>), TRUE))

\* Both branches read self.qs.profiles_mapping, which QuerySets does not have.
pg_dept_hosp_process(pre_dataset) ==
  IF error_check_raises(pre_dataset) # None
    THEN PgOutcome("IndexError", <<"error_check">>, <<>>)
    ELSE PgOutcome("AttributeError", <<"error_check">>, <<>>)

\* The first statement reads self.qs.COLUMNS['signout'] and self.qs.signout:
\* it raises before the dataset is looked at.
pg_signout_process(signout_dataset) ==
  IF "signout" \notin DOMAIN pg_COLUMNS
    THEN PgOutcome("KeyError", <<>>, <<>>)
    ELSE PgOutcome("AttributeError", <<>>, <<>>)

\* The unit counts are taken first, then self.qs.COLUMNS['deads_t'] is read.
pg_deads_process(deads_dataset) ==
  IF filter_raises(deads_dataset, 6)
    THEN PgOutcome("IndexError", <<"filter_dataset">>, <<>>)
    ELSE PgOutcome("KeyError", <<"filter_dataset", "filter_dataset", "filter_dataset">>, <<>>)

\* __oar_process is handed its column set by the caller.
pg_oar_process(dataset, columns) ==
  IF filter_raises(dataset, 3)
    THEN PgOutcome("IndexError", <<"filter_dataset">>, <<>>)
    ELSE PgOutcome(None,
           <<"filter_dataset", "filter_dataset", "filter_dataset", "create_instance">>,
           serialize(create_instance(columns, dataset), FALSE))

\* The column set a caller of __oar_process passes for a listing: the names of
\* the columns its query selects.
pg_columns_arg(topic) ==
  IF topic = OAR_ARRIVED_QUERY THEN COLUMNS.oar_arrived_t
  ELSE IF topic = OAR_MOVED_QUERY THEN COLUMNS.oar_moved_t
  ELSE COLUMNS.oar_current_t

\* One aggregator of pg_processing applied to a dataset its query may answer with.
CallPgAggregator ==
  /\ call = NoCall
  /\ \E n \in 1..Len(pg_create_ready_dicts_calls) :
       LET agg == pg_create_ready_dicts_calls[n].agg
           topic == pg_create_ready_dicts_calls[n].topic
       IN \E dataset \in cursor(topic) :
            LET res == CASE agg = "arrived_process" -> pg_arrived_process(dataset)
                         [] agg = "dept_hosp_process" -> pg_dept_hosp_process(dataset)
                         [] agg = "signout_process" -> pg_signout_process(dataset)
                         [] agg = "deads_process" -> pg_deads_process(dataset)
                         [] OTHER -> pg_oar_process(dataset, pg_columns_arg(topic))
            IN call' = [fn |-> "pg_" \o agg, args |-> <<dataset>>,
                        exc |-> res.exc, out |-> <<res.trace, res.out>>]
  /\ UNCHANGED <<pipe, cache, req>>

\* The n-th next(self.kis_generator) of create_ready_dicts: the generator runs
\* the n-th query of queryset_for_kis() and the n-th aggregator call receives
\* the answer.
CallPgPull ==
  /\ call = NoCall
  /\ \E n \in 1..Len(pg_create_ready_dicts_calls) :
       \E dataset \in cursor(pg_queryset_for_kis[n]) :
         call' = [fn |-> "pg_pull", args |-> <<n>>, exc |-> None,
                  out |-> <<pg_queryset_for_kis[n], pg_create_ready_dicts_calls[n], dataset>>]
  /\ UNCHANGED <<pipe, cache, req>>

\* pg_processing DataForDMK: the marker is looked for before anything is counted.
pg_get_arrived_data(arrived_dataset) ==
  IF error_check(arrived_dataset) = "True"
    THEN CleanData(<<"arrived", "hosp", "refused">>, <<None, None, None>>)
    ELSE CleanData(<<"arrived", "hosp", "refused">>, count_data(arrived_dataset, 0, "1"))

pg_get_signout_data(signout_dataset) ==
  IF error_check(signout_dataset) = "True"
    THEN CleanData(<<"signout", "deads">>, <<None, None>>)
    ELSE CleanData(<<"signout", "deads">>, count_data(signout_dataset, 1, "Drugaya prichina"))

\* Rows (department, outcome) as get_signout_data reads them: the outcome it
\* compares with, and two others.
DmkSignoutRows ==
  {<<d, o>> : d \in {"Hirurgicheskoe", "OAR 1"},
              o \in {"Drugaya prichina", "Umer v stacionare", "Vypisan"}}

\* get_arrived_data of either package on the dataset it is given (data) or
\* pulls (pg_processing).
CallGetArrivedData ==
  /\ call = NoCall
  /\ \E pg \in BOOLEAN, dataset \in SeqsUpTo(ArrivedRows, MaxRows) \cup {Sentinel} :
       LET raises == IF pg /\ error_check_raises(dataset) # None THEN "IndexError"
                     ELSE IF filter_raises(dataset, 0) THEN "IndexError" ELSE None
       IN call' = [fn |-> IF pg THEN "pg_get_arrived_data" ELSE "get_arrived_data",
                   args |-> <<dataset>>, exc |-> raises,
                   out |-> IF raises # None THEN <<>>
                           ELSE IF pg THEN pg_get_arrived_data(dataset)
                           ELSE get_arrived_data(dataset)]
  /\ UNCHANGED <<pipe, cache, req>>

CallGetSignoutData ==
  /\ call = NoCall
  /\ \E pg \in BOOLEAN, dataset \in SeqsUpTo(DmkSignoutRows, MaxRows) \cup {Sentinel} :
       LET raises == IF pg /\ error_check_raises(dataset) # None THEN "IndexError"
                     ELSE IF filter_raises(dataset, 1) THEN "IndexError" ELSE None
       IN call' = [fn |-> IF pg THEN "pg_get_signout_data" ELSE "get_signout_data",
                   args |-> <<dataset>>, exc |-> raises,
                   out |-> IF raises # None THEN <<>>
                           ELSE IF pg THEN pg_get_signout_data(dataset)
                           ELSE get_signout_data(dataset)]
  /\ UNCHANGED <<pipe, cache, req>>

PrimNext ==
  \/ CallFilterDataset
  \/ CallCountValues
  \/ CallSliceDataset
  \/ CallCreateInstance
  \/ CallErrorCheck
  \/ CallArrivedProcess
  \/ CallSignoutProcess
  \/ CallDeadsProcess
  \/ CallOarProcess
  \/ CallPgAggregator
  \/ CallPgPull
  \/ CallGetArrivedData
  \/ CallGetSignoutData

PrimSpec == Init /\ [][PrimNext]_vars

\* ------------------------------------------------------------------------
\* kis_data.py: ensure_cashing, called by every request of the main view
\* ------------------------------------------------------------------------
\* cache is the function from the keys present to their values: cache.get(key)
\* is None exactly when the key is not in its domain.
cache_set(key, value) ==
  [k \in (DOMAIN cache) \cup {key} |-> IF k = key THEN value ELSE cache[k]]

\* if cache.get('dmk') is None: the request goes on to read the DMK database.
EnsureGetDmk(r) ==
  /\ req[r].pc = "idle"
  /\ req' = [req EXCEPT ![r].pc = IF "dmk" \notin DOMAIN cache THEN "set_dmk" ELSE "get_kis"]
  /\ UNCHANGED <<pipe, call, cache>>

\* cache.set('dmk', dmk) with the dict this request has built.
EnsureSetDmk(r) ==
  /\ req[r].pc = "set_dmk"
  /\ cache' = cache_set("dmk", <<"dmk", r>>)
  /\ req' = [req EXCEPT ![r].pc = "get_kis"]
  /\ UNCHANGED <<pipe, call>>

\* Variant: a stored all-None result counts as absent and the pipeline is rerun.
EnsureGetKis_retry_degraded(r) ==
  /\ req[r].pc = "get_kis"
  /\ req' = [req EXCEPT ![r].pc =
               IF "kis" \notin DOMAIN cache THEN "run_kis"
               ELSE IF cache["kis"][3] = "all_none" THEN "run_kis" ELSE "done"]
  /\ UNCHANGED <<pipe, call, cache>>

\* if cache.get('kis') is None
EnsureGetKis(r) ==
  /\ req[r].pc = "get_kis"
  /\ req' = [req EXCEPT ![r].pc = IF "kis" \notin DOMAIN cache THEN "run_kis" ELSE "done"]
  /\ UNCHANGED <<pipe, call, cache>>

\* p_kis = KISDataProcessing(...).create_ready_dicts() on a new object: without
\* a connection it returns the all-None result, with one it returns the
\* processed datasets or raises.
EnsureRunKis(r) ==
  /\ req[r].pc = "run_kis"
  /\ \E outcome \in {"processed", "all_none", "raised"} :
       req' = [req EXCEPT ![r] =
                 IF outcome = "raised" THEN [pc |-> "raised", p_kis |-> <<>>]
                 ELSE [pc |-> "set_kis", p_kis |-> <<"kis", r, outcome>>]]
  /\ UNCHANGED <<pipe, call, cache>>

\* cache.set('kis', p_kis)
EnsureSetKis(r) ==
  /\ req[r].pc = "set_kis"
  /\ cache' = cache_set("kis", req[r].p_kis)
  /\ req' = [req EXCEPT ![r].pc = "done"]
  /\ UNCHANGED <<pipe, call>>

\* The cache backend drops a key (its timeout, an eviction).
CacheExpire ==
  /\ \E key \in DOMAIN cache : cache' = [k \in (DOMAIN cache) \ {key} |-> cache[k]]
  /\ UNCHANGED <<pipe, call, req>>

CacheNext ==
  \/ \E r \in 1..MaxReq : EnsureGetDmk(r)
  \/ \E r \in 1..MaxReq : EnsureSetDmk(r)
  \/ \E r \in 1..MaxReq : EnsureGetKis(r)
  \/ \E r \in 1..MaxReq : EnsureRunKis(r)
  \/ \E r \in 1..MaxReq : EnsureSetKis(r)
  \/ CacheExpire

CacheSpec == Init /\ [][CacheNext]_vars

\* ------------------------------------------------------------------------
\* kis_data.py: KISData.get_data_generator, pulled by a consumer of its own
\* ------------------------------------------------------------------------
\* next() calls the consumer makes after the generator has finished.
MaxExtraPulls == 2

\* The query lists a KISData is built over.
QueryLists ==
  {queryset_for_kis, queryset_for_dmk, pg_queryset_for_kis, pg_queryset_for_dmk}

\* KISData(query_sets).get_data_generator(): no query runs until the first next();
\* call.args counts the next() calls made on it.
GenCreate ==
  /\ op = "none" /\ gen = "none" /\ conn = "open" /\ call = NoCall
  /\ query_sets' \in QueryLists
  /\ inst' = "KISData" /\ op' = "get_data_generator" /\ pc' = "pulling"
  /\ gen' = "created" /\ genPos' = 0 /\ closeCalls' = 0 /\ fed' = <<>>
  /\ call' = [fn |-> "next", args |-> <<0>>, exc |-> None, out |-> <<>>]
  /\ UNCHANGED <<conn, exc, counted_oar, deads_oar, buf0, loc, ret, saved, cache, req>>

\* next(gen) on a generator that has not finished: the loop body runs the next
\* query and yields its answer, or the loop ends and the connection is closed.
GenPull ==
  /\ op = "get_data_generator" /\ gen \in {"created", "suspended"}
  /\ IF genPos < Len(query_sets)
       THEN \E rows \in cursor(query_sets[genPos + 1]) :
              /\ GenYields("consumer", rows)
              /\ call' = [call EXCEPT !.args = <<call.args[1] + 1>>, !.exc = None,
                                      !.out = rows]
              /\ UNCHANGED <<pc, exc, loc, counted_oar, deads_oar, ret>>
       ELSE /\ GenExhausted
            /\ call' = [call EXCEPT !.args = <<call.args[1] + 1>>,
                                    !.exc = "StopIteration", !.out = <<>>]
  /\ UNCHANGED <<inst, query_sets, conn, op, buf0, saved, cache, req>>

\* next(gen) on a finished generator raises StopIteration and runs no code.
GenPullFinished ==
  /\ op = "get_data_generator" /\ gen = "finished"
  /\ call.args[1] < Len(query_sets) + MaxExtraPulls
  /\ call' = [call EXCEPT !.args = <<call.args[1] + 1>>, !.exc = "StopIteration",
                          !.out = <<>>]
  /\ UNCHANGED <<pipe, cache, req>>

GenNext ==
  \/ GenCreate
  \/ GenPull
  \/ GenPullFinished

GenSpec == Init /\ [][GenNext]_vars

\* ------------------------------------------------------------------------


\* Properties
\* ------------------------------------------------------------------------
KisRan == op = "create_ready_dicts" /\ pc \in {"done", "raised"}
KisDone == op = "create_ready_dicts" /\ pc = "done" /\ conn = "open"
DmkRan == op = "save_to_dmk" /\ pc \in {"done", "raised"}

\* Number of rows of a dataset whose field ind is the unit, counted row by row.
UnitCount(rows, ind, unit) ==
  Cardinality({k \in 1..Len(rows) : At(rows[k], ind) = unit})

\* The occupancy Record of a dataset: the three units' counts, in the units' order.
UnitRecord(rows, ind) ==
  [c \in {"oar1_d", "oar2_d", "oaronmk_d"} |->
     CASE c = "oar1_d" -> UnitCount(rows, ind, oar_units[1])
       [] c = "oar2_d" -> UnitCount(rows, ind, oar_units[2])
       [] OTHER -> UnitCount(rows, ind, oar_units[3])]

\* C1: when oar_count reads the living buffer in a run of create_ready_dicts, the
\* buffer holds exactly the 3 entries of this run's three ICU datasets, and the
\* summary's arrived_nums is the occupancy Record of this run's arrived-to-ICU
\* dataset, whatever ran before in the process.
C1_NoLeakAcrossRuns ==
  /\ (op = "create_ready_dicts" /\ pc = "oar_numbers") =>
        counted_oar = [k \in 1..3 |-> <<oar_filtered(fed[k + 3].rows, 3)>>]
  /\ KisDone => loc.oar_numbers[1]["arrived_nums"] = <<UnitRecord(fed[4].rows, 3)>>

\* The query whose dataset an aggregator is written for.
TopicQuery(agg) ==
  CASE agg \in {"arrived", "get_arrived_data"} -> ARRIVED
    [] agg \in {"signout", "get_signout_data"} -> SIGNOUT
    [] agg = "deads" -> DEADS
    [] agg \in {"oar_arrived", "get_reanimation_data"} -> OAR_ARRIVED_QUERY
    [] agg = "oar_moved" -> OAR_MOVED_QUERY
    [] agg = "oar_current" -> OAR_CURRENT_QUERY
    [] OTHER -> DEPT_HOSP

\* C2: in both pipelines the N-th dataset pulled is an answer to the N-th
\* submitted query, and the aggregator it is handed to is the one of that
\* query's topic.
C2_NthDatasetToItsTopic ==
  \A k \in 1..Len(fed) :
     /\ fed[k].query = query_sets[k]
     /\ fed[k].query = TopicQuery(fed[k].agg)
     /\ fed[k].rows \in cursor(TopicQuery(fed[k].agg))

C2_Witness ==
  /\ KisDone /\ Len(fed) = 6
  /\ fed[5].agg = "oar_moved" /\ fed[5].rows = OarMovedSample
  /\ fed[6].agg = "oar_current" /\ fed[6].rows = OarCurrentSample

\* C3: when a run that created the dataset generator has ended, normally or by
\* an exception, close_connection has been called exactly once.
C3_ClosedExactlyOnce ==
  ((KisRan \/ DmkRan) /\ gen # "none") => closeCalls = 1

\* C4: create_ready_dicts returns one mapping holding every keyword of
\* DICT_KEYWORDS, each mapped to the result of its own aggregator.
C4_EveryKeywordPresent ==
  KisDone =>
    /\ Len(ret) = 1
    /\ DOMAIN ret[1] = {DICT_KEYWORDS[k] : k \in 1..Len(DICT_KEYWORDS)}
    /\ \A kw \in DOMAIN ret[1] : ret[1][kw] = loc[kw]

\* C5: without a connection create_ready_dicts raises nothing, creates no
\* generator, pulls no dataset, and returns every keyword of DICT_KEYWORDS with
\* the null placeholder.
C5_UnavailableAllNull ==
  (op = "create_ready_dicts" /\ conn = None) =>
    /\ pc = "done" /\ exc = None
    /\ gen = "none" /\ genPos = 0 /\ fed = <<>>
    /\ Len(ret) = 1
    /\ DOMAIN ret[1] = {DICT_KEYWORDS[k] : k \in 1..Len(DICT_KEYWORDS)}
    /\ \A kw \in DOMAIN ret[1] : ret[1][kw] = None

C5_Witness ==
  op = "create_ready_dicts" /\ conn = None /\ pc = "done" /\ "oar_numbers" \in DOMAIN ret[1]

\* C6: without a connection save_to_dmk raises nothing, pulls no dataset, has
\* main data all None and never calls a serializer save.
C6_DmkUnavailableNoRaise ==
  (op = "save_to_dmk" /\ conn = None) =>
    /\ pc = "done" /\ exc = None
    /\ fed = <<>> /\ saved = <<>>
    /\ loc.main_data = ready_main_data(null_main_data)

\* The result an aggregator gives for a dataset of no rows: the topic's zero shape.
ZeroShape(agg) ==
  CASE agg = "arrived" -> arrived_process(<<>>)
    [] agg = "signout" -> signout_process(<<>>)
    [] OTHER -> <<>>

OneSentinelRun ==
  /\ op = "create_ready_dicts" /\ conn = "open"
  /\ Cardinality({k \in 1..Len(fed) : fed[k].rows = Sentinel}) = 1
  /\ \A k \in 1..Len(fed) : fed[k].rows # SignoutUnmapped

\* C7: a run of create_ready_dicts in which exactly one pulled dataset is the
\* Failure Sentinel, the others valid, does not raise, and the topic fed by the
\* sentinel has its zero shape: the sentinel row is not turned into a Record.
C7_OneSentinelDegradesOneTopic ==
  OneSentinelRun =>
    /\ pc # "raised"
    /\ pc = "done" =>
         \A k \in 1..Len(fed) : fed[k].rows = Sentinel => loc[fed[k].agg] = ZeroShape(fed[k].agg)

\* C8: an unmapped department label in the discharges dataset does not leave
\* create_ready_dicts as an exception: the run goes on to the remaining topics.
C8_UnmappedLabelStaysLocal ==
  (op = "create_ready_dicts" /\ Len(fed) >= 2
     /\ ~filter_raises(fed[2].rows, 1)
     /\ slice_raises(counted_signout(fed[2].rows), depts_mapping)) => pc # "raised"

OarCountRan == op = "oar_count" /\ pc \in {"done", "raised"}

C10_OccupancySummary ==
  (KisDone /\ buf0 = 0) =>
    loc.oar_numbers =
      << "arrived_nums" :> <<UnitRecord(fed[4].rows, 3)>>,
         "moved_nums"   :> <<UnitRecord(fed[5].rows, 3)>>,
         "current_nums" :> <<UnitRecord(fed[6].rows, 3)>>,
         "deads_nums"   :> <<UnitRecord(fed[3].rows, 6)>> >>

C10_Witness ==
  /\ KisDone /\ buf0 = 0
  /\ fed[3].rows = DeadsSample /\ fed[4].rows = OarArrivedSample
  /\ fed[5].rows = OarMovedSample /\ fed[6].rows = OarCurrentSample

\* ------------------------------------------------------------------------
\* Properties of the primitives applied on their own
\* ------------------------------------------------------------------------
\* The names of a column list.
NamesOf(columns) == {columns[k] : k \in 1..Len(columns)}

\* C11: create_instance fails with a construction error whenever some row's
\* length differs from len(columns); when all lengths match it returns one
\* record per row, in row order, each with exactly the names in columns as keys,
\* the j-th name holding the row's j-th value.
C11_MismatchIsConstructionError ==
  call.fn = "create_instance" =>
    LET columns == call.args[1]
        dataset == call.args[2]
    IN IF \E k \in 1..Len(dataset) : Len(dataset[k]) # Len(columns)
         THEN call.exc # None
         ELSE /\ call.exc = None
              /\ Len(call.out) = Len(dataset)
              /\ \A k \in 1..Len(dataset) :
                    /\ DOMAIN call.out[k] = NamesOf(columns)
                    /\ \A j \in 1..Len(columns) : call.out[k][columns[j]] = dataset[k][j]

\* C12: error_check returns true if and only if the dataset is non-empty and
\* the first field of its first row is the marker 'Error'; it raises for no
\* dataset, the dataset of zero rows included.
C12_ErrorCheckIffMarker ==
  call.fn = "error_check" =>
    LET dataset == call.args[1]
    IN /\ call.exc = None
       /\ (call.out = <<"True">>) <=> (dataset # <<>> /\ At(dataset[1], 0) = "Error")

\* ------------------------------------------------------------------------
\* Properties of the pulls
\* ------------------------------------------------------------------------
\* The aggregators in the order create_ready_dicts and __collect_data call them.
KisSequence == <<"arrived", "signout", "deads", "oar_arrived", "oar_moved", "oar_current">>
DmkSequence ==
  <<"get_arrived_data", "get_signout_data", "get_reanimation_data", "get_dept_hosps">>

\* The aggregators this run has handed a dataset to, in the order of the pulls.
Pulled == [k \in 1..Len(fed) |-> fed[k].agg]

PullsSoFar ==
  /\ exc # "StopIteration" /\ gen # "finished"
  /\ op = "create_ready_dicts" =>
       /\ genPos = Len(fed)
       /\ Pulled = SubSeq(KisSequence, 1, Len(fed))
       /\ (pc \in {"oar_numbers", "done"} /\ conn = "open") =>
             genPos = Len(queryset_for_kis) /\ genPos = 6
  /\ op = "save_to_dmk" =>
       /\ genPos = Len(fed)
       /\ Pulled = SubSeq(DmkSequence, 1, Len(fed))
       /\ pc \in {"save_main", "save_accum", "done"} =>
             genPos = Len(queryset_for_dmk) /\ genPos = 4

\* A step of oar_count, inside create_ready_dicts or on its own, pulls nothing.
OarCountPullsNothing ==
  (pc = "oar_numbers" \/ op' = "oar_count") => (genPos' = genPos /\ gen' = gen)

\* C13: a run pulls once per aggregator it calls, in the fixed sequence and
\* never twice for one aggregator: a create_ready_dicts that goes through all
\* its aggregators has made exactly 6 pulls (= len(queryset_for_kis())), a
\* __collect_data exactly 4 (= len(queryset_for_dmk())), oar_count makes none,
\* and no pull raises StopIteration.
C13_OnePullPerAggregator == [](PullsSoFar) /\ [][OarCountPullsNothing]_vars

C13_Witness ==
  /\ op = "save_to_dmk" /\ pc = "done" /\ genPos = 4
  /\ Pulled = DmkSequence

\* ------------------------------------------------------------------------
\* Properties of the Persistence Store boundary
\* ------------------------------------------------------------------------
\* The elements of s at the positions K, in the order of s.
Pick(s, K) ==
  [j \in 1..Cardinality(K) |-> s[CHOOSE k \in K : Cardinality({m \in K : m < k}) = j - 1]]

C15_NeverOverwritten ==
  [][\A key \in DOMAIN cache : key \in DOMAIN cache' => cache'[key] = cache[key]]_vars

\* C16: slice_dataset, given n (label, value) pairs whose labels are all keys
\* of the mapping, returns two lists of length n: columns[k] is the canonical
\* name of the k-th label and values[k] the value paired with that label.
C16_SliceRoundTrip ==
  call.fn = "slice_dataset" =>
    LET dataset == call.args[1]
        n == Len(dataset)
    IN (\A k \in 1..n : dataset[k][1] \in DOMAIN depts_mapping) =>
         /\ call.exc = None
         /\ Len(call.out) = 2 /\ Len(call.out[1]) = n /\ Len(call.out[2]) = n
         /\ \A k \in 1..n : /\ call.out[1][k] = depts_mapping[dataset[k][1]]
                            /\ call.out[2][k] = dataset[k][2]

C16_Witness ==
  /\ call.fn = "slice_dataset" /\ call.exc = None
  /\ call.args[1] = << <<"OAR 1", 1>>, <<"Hirurgicheskoe", 2>>, <<"OAR 1", 2>> >>
  /\ call.out = << <<"oar1_d", "surgery_d", "oar1_d">>, <<1, 2, 2>> >>

\* C17: filter_dataset, on a dataset whose rows all have the index, keeps
\* exactly the rows whose value at the index equals the value, in their
\* original order; on the empty dataset it returns the empty list without
\* raising; the rows kept and the rows whose value differs add up to
\* count_dataset_total of the dataset.
C17_FilterPartition ==
  call.fn = "filter_dataset" =>
    LET dataset == call.args[1]
        ind == call.args[2]
        value == call.args[3]
    IN /\ dataset = <<>> => (call.exc = None /\ call.out = <<>>)
       /\ call.exc = None <=> \A k \in 1..Len(dataset) : InRange(dataset[k], ind)
       /\ call.exc = None =>
            /\ call.out = Pick(dataset, {k \in 1..Len(dataset) : At(dataset[k], ind) = value})
            /\ Len(call.out)
                 + Cardinality({k \in 1..Len(dataset) : At(dataset[k], ind) # value})
                 = count_dataset_total(dataset)

C17_Witness ==
  /\ call.fn = "filter_dataset" /\ call.exc = None
  /\ call.args = << << <<"a", "b">>, <<"b", "b">>, <<"a", "a">> >>, 0, "a" >>
  /\ call.out = << <<"a", "b">>, <<"a", "a">> >>

RECURSIVE SumSeq(_)
SumSeq(s) == IF s = <<>> THEN 0 ELSE Head(s) + SumSeq(Tail(s))

\* C18: __count_values returns a list as long as keywords whose k-th entry is
\* the number of rows with keywords[k] at ind, 0 when none match; with pairwise
\* distinct keywords the entries sum to at most the number of rows.
C18_CountValuesAligned ==
  (call.fn = "count_values" /\ call.exc = None) =>
    LET dataset == call.args[1]
        ind == call.args[2]
        keywords == call.args[3]
    IN /\ Len(call.out) = Len(keywords)
       /\ \A k \in 1..Len(keywords) :
             call.out[k] =
               Cardinality({m \in 1..Len(dataset) : At(dataset[m], ind) = keywords[k]})
       /\ (\A j, k \in 1..Len(keywords) : j # k => keywords[j] # keywords[k]) =>
             SumSeq(call.out) <= Len(dataset)

C18_Witness ==
  /\ call.fn = "count_values" /\ call.exc = None
  /\ call.args = << << <<"a">>, <<"b", "a">>, <<"a", "b">> >>, 0, <<"c", "a", "b">> >>
  /\ call.out = <<0, 2, 1>>

\* Number of rows of a dataset that satisfy Test.
CountRows(dataset, Test(_)) == Cardinality({m \in 1..Len(dataset) : Test(dataset[m])})

\* C19: the arrivals aggregator gives one Record named by the 'arrived' Column
\* Set: its first values are the counts of admitted rows (flag at index 0 equal
\* to 1) per channel keyword (index 2), then the counts of admitted rows per
\* patient-type keyword (last field), each in its keyword list's order; a row
\* with flag 0 is counted nowhere.
C19_ArrivalsCountAdmittedOnly ==
  call.fn = "arrived_process" =>
    LET dataset == call.args[1]
    IN /\ call.exc = None
       /\ Len(call.out) = 1
       /\ DOMAIN call.out[1] = NamesOf(COLUMNS.arrived)
       /\ \A k \in 1..Len(channels) :
             call.out[1][COLUMNS.arrived[k]] =
               CountRows(dataset, LAMBDA row : row[1] = "1" /\ row[3] = channels[k])
       /\ \A k \in 1..Len(statuses) :
             call.out[1][COLUMNS.arrived[Len(channels) + k]] =
               CountRows(dataset, LAMBDA row : row[1] = "1" /\ row[Len(row)] = statuses[k])

C19_Witness ==
  /\ call.fn = "arrived_process" /\ call.exc = None
  /\ call.args[1] = << <<"1", "Kardiologicheskoe", "103", "ZL">>,
                       <<"1", "Kardiologicheskoe", "Poliklinika", "NR">>,
                       <<"0", "Kardiologicheskoe", "103", "NR">> >>
  /\ call.out[1]["ch103"] = 1 /\ call.out[1]["clinic_only"] = 1 /\ call.out[1]["ZL"] = 1

\* The departments that have a discharged row.
DischargedDepts(dataset) ==
  {dataset[m][1] : m \in {m \in 1..Len(dataset) : dataset[m][2] = signout_keywords[3]}}

\* C20: the discharges aggregator, when every department with a discharged row
\* is in the department Lookup Table, gives one Record: the counts of all rows
\* by outcome keyword (died, transferred out, discharged) under the 'signout'
\* Column Set, and for every department with a discharged row the count of its
\* discharged rows under the department's canonical name, and nothing else.
C20_DischargeTotalsAndDepartments ==
  call.fn = "signout_process" =>
    LET dataset == call.args[1]
    IN /\ call.exc = None <=> DischargedDepts(dataset) \subseteq DOMAIN depts_mapping
       /\ call.exc = None =>
            /\ Len(call.out) = 1
            /\ DOMAIN call.out[1] =
                 NamesOf(COLUMNS.signout)
                   \cup {depts_mapping[d] : d \in DischargedDepts(dataset)}
            /\ \A k \in 1..Len(signout_keywords) :
                  call.out[1][COLUMNS.signout[k]] =
                    CountRows(dataset, LAMBDA row : row[2] = signout_keywords[k])
            /\ \A d \in DischargedDepts(dataset) :
                  call.out[1][depts_mapping[d]] =
                    CountRows(dataset,
                              LAMBDA row : row[1] = d /\ row[2] = signout_keywords[3])

C20_Witness ==
  /\ call.fn = "signout_process" /\ call.exc = None
  /\ call.args[1] = << <<"Novoe otdelenie", "Umer v stacionare">>,
                       <<"OAR 1", "Vypisan">>, <<"OAR 1", "Vypisan">> >>
  /\ call.out = << [deads |-> 1, moved |-> 0, signout |-> 2, oar1_d |-> 2] >>

\* C21: the deaths listing and the three intensive-care listings are tabular
\* passthroughs: a dataset of n rows gives exactly n Records in the same order,
\* and the k-th Record pairs the j-th name of the fixed Column Set with the j-th
\* value of the k-th row, unchanged, whatever the call has put in the unit
\* buffers on the side.
Passthrough(columns, dataset, listing) ==
  /\ Len(listing) = Len(dataset)
  /\ \A k \in 1..Len(dataset) :
       /\ DOMAIN listing[k] = {columns[j] : j \in 1..Len(columns)}
       /\ \A j \in 1..Len(columns) : listing[k][columns[j]] = dataset[k][j]

C21_ListingsPassThrough ==
  /\ (call.fn = "deads_process" /\ call.exc = None)
       => Passthrough(COLUMNS.deads_t, call.args[1], call.out[1])
  /\ (call.fn = "oar_process" /\ call.exc = None)
       => Passthrough(call.args[2], call.args[1], call.out[1])

\* Three deaths, two of them in intensive-care units: three Records and a
\* refilled deaths buffer.
C21_Witness ==
  /\ call.fn = "deads_process"
  /\ call.exc = None
  /\ Len(call.args[1]) = 3
  /\ Len(call.out[1]) = 3
  /\ call.out[1][2].dept = "ORIT3"
  /\ call.out[2] # <<>>

\* C22: in a save_to_dmk run, when the dataset pulled for a topic is the Failure
\* Sentinel, the counts of that topic are None, not numbers counted from the
\* sentinel row, while the other topics keep the counts of their own datasets.
C22_SentinelTopicIsNull ==
  op = "save_to_dmk" =>
    /\ (Len(fed) >= 1 /\ fed[1].rows = Sentinel /\ loc.arrived # <<>>)
         => \A c \in DOMAIN loc.arrived : loc.arrived[c] \notin Nat
    /\ (Len(fed) >= 2 /\ fed[2].rows = Sentinel /\ loc.signout # <<>>)
         => \A c \in DOMAIN loc.signout : loc.signout[c] \notin Nat
    /\ (Len(fed) >= 3 /\ fed[3].rows = Sentinel /\ loc.deads # <<>>)
         => \A c \in DOMAIN loc.deads : loc.deads[c] \notin Nat
    /\ (Len(fed) >= 1 /\ fed[1].rows # Sentinel /\ loc.arrived # <<>>)
         => loc.arrived = get_arrived_data(fed[1].rows)

\* C23: in pg_processing the order of the queries of queryset_for_kis is the
\* order of the aggregator calls of create_ready_dicts: the dataset a pull
\* hands to an aggregator is the answer to the query of that aggregator's
\* topic, so the second intensive-care listing (moved) is the answer to
\* OAR_MOVED_QUERY and the third (current) the answer to OAR_CURRENT_QUERY.
C23_PgQueryOrderMatchesCalls ==
  call.fn = "pg_pull" => call.out[1] = call.out[2].topic

\* C24: in pg_processing every aggregator calls error_check on its dataset
\* exactly once, before any row primitive touches the dataset, and on a
\* Failure Sentinel no row primitive is applied at all.
PgAggregatorFns ==
  {"pg_" \o pg_create_ready_dicts_calls[n].agg : n \in 1..Len(pg_create_ready_dicts_calls)}

C24_ErrorCheckFirstAndOnce ==
  call.fn \in PgAggregatorFns =>
    LET trace == call.out[1]
    IN /\ trace # <<>>
       /\ trace[1] = "error_check"
       /\ \A k \in 2..Len(trace) : trace[k] # "error_check"
       /\ call.args[1] = Sentinel => trace = <<"error_check">>

\* C25: pg_processing __signout_process on the Failure Sentinel raises nothing
\* and returns one Record whose totals are all 0 and that has no department
\* field.
C25_PgSignoutZeroFilled ==
  (call.fn = "pg_signout_process" /\ call.args[1] = Sentinel) =>
    /\ call.exc = None
    /\ Len(call.out[2]) = 1
    /\ \A c \in DOMAIN call.out[2][1] : call.out[2][1][c] = 0
    /\ \A d \in DOMAIN depts_mapping : depts_mapping[d] \notin DOMAIN call.out[2][1]

\* C26: get_data_generator is lazy and ordered: after p pulls exactly the first
\* min(p, n) of the n queries have been executed, each once and in the order of
\* query_sets; close_connection has been called once if the consumer has pulled
\* once more after the last dataset was yielded, and not at all before that.
C26_GeneratorLazyOrdered ==
  op = "get_data_generator" =>
    LET pulls == call.args[1]
        n == Len(query_sets)
    IN /\ Len(fed) = Min(pulls, n)
       /\ genPos = Len(fed)
       /\ \A k \in 1..Len(fed) : fed[k].query = query_sets[k]
       /\ closeCalls = IF pulls > n THEN 1 ELSE 0
       /\ closeCalls > 0 => (gen = "finished" /\ Len(fed) = n)

\* All six queries pulled and then two more next() calls: one close.
C26_Witness ==
  /\ op = "get_data_generator"
  /\ query_sets = queryset_for_kis
  /\ call.args[1] = Len(query_sets) + 2
  /\ Len(fed) = Len(query_sets)
  /\ closeCalls = 1

RECURSIVE SumFields(_, _)
\* The sum of the values a Record has under the names in S.
SumFields(rec, S) ==
  IF S = {} THEN 0
  ELSE LET c == CHOOSE x \in S : TRUE IN rec[c] + SumFields(rec, S \ {c})

\* C27: in the discharges Record, for a dataset whose discharged rows all have
\* mapped departments with pairwise different canonical names, the department
\* values sum to the value of the 'signout' totals column (the number of rows
\* with the outcome 'Vypisan'), and every department value is at least 1.
C27_DepartmentsSumToDischarged ==
  (/\ call.fn = "signout_process"
   /\ DischargedDepts(call.args[1]) \subseteq DOMAIN depts_mapping
   /\ \A d1, d2 \in DischargedDepts(call.args[1]) :
         d1 # d2 => depts_mapping[d1] # depts_mapping[d2])
  => /\ call.exc = None
     /\ LET rec == call.out[1]
            dept_names == (DOMAIN rec) \ NamesOf(COLUMNS.signout)
        IN /\ SumFields(rec, dept_names) = rec["signout"]
           /\ rec["signout"] =
                CountRows(call.args[1], LAMBDA row : row[2] = signout_keywords[3])
           /\ \A c \in dept_names : rec[c] >= 1

\* Two discharges of one department and one of another.
C27_Witness ==
  /\ call.fn = "signout_process" /\ call.exc = None
  /\ call.args[1] = << <<"OAR 1", "Vypisan">>, <<"Hirurgicheskoe", "Vypisan">>,
                       <<"OAR 1", "Vypisan">> >>
  /\ call.out[1]["signout"] = 3
  /\ call.out[1][depts_mapping["OAR 1"]] = 2
  /\ call.out[1][depts_mapping["Hirurgicheskoe"]] = 1

\* The dataset starts with the marker pg_processing answers None-filled to.
PgMarked(fn, dataset) ==
  /\ fn \in {"pg_get_arrived_data", "pg_get_signout_data"}
  /\ dataset # <<>> /\ dataset[1] # <<>> /\ dataset[1][1] = "Error"

\* C28: the counts DataForDMK returns are consistent: get_arrived_data gives
\* arrived = number of rows, hosp = number of rows with flag 1 and
\* refused = arrived - hosp, all three non-negative; get_signout_data gives
\* exactly the two values signout = number of rows and deads = number of rows
\* whose outcome differs from 'Drugaya prichina', so deads <= signout.
C28_DmkCountsConsistent ==
  LET dataset == call.args[1]
      res == call.out
  IN /\ (/\ call.fn \in {"get_arrived_data", "pg_get_arrived_data"}
         /\ call.exc = None /\ ~PgMarked(call.fn, dataset))
        => /\ DOMAIN res = {"arrived", "hosp", "refused"}
           /\ res.arrived = Len(dataset)
           /\ res.hosp = CountRows(dataset, LAMBDA row : row[1] = "1")
           /\ res.refused = res.arrived - res.hosp
           /\ res.arrived = res.hosp + res.refused
           /\ res.arrived >= 0 /\ res.hosp >= 0 /\ res.refused >= 0
     /\ (/\ call.fn \in {"get_signout_data", "pg_get_signout_data"}
         /\ call.exc = None /\ ~PgMarked(call.fn, dataset))
        => /\ DOMAIN res = {"signout", "deads"}
           /\ res.signout = Len(dataset)
           /\ res.deads = CountRows(dataset, LAMBDA row : row[2] # "Drugaya prichina")
           /\ res.deads <= res.signout

\* Three discharges, one of them with the outcome the filter compares with.
C28_Witness ==
  /\ call.fn = "get_signout_data" /\ call.exc = None
  /\ Len(call.args[1]) = 3
  /\ call.out.signout = 3
  /\ call.out.deads = 2

\* C29: the deaths buffer is replaced, not appended to: whatever runs came
\* before, the deads_oar an object sees after its __deads_process holds exactly
\* one tuple, the three unit counts of the deaths dataset it has just
\* processed; an object that has not run __deads_process sees the class-level
\* list, which stays empty.
C29_DeadsBufferReplaced ==
  /\ Len(deads_oar) <= 1
  /\ op = "none" => deads_oar = <<>>
  /\ \A k \in 1..Len(fed) :
        (op = "create_ready_dicts" /\ fed[k].agg = "deads" /\ deads_raises(fed[k].rows) = None)
          => /\ Len(deads_oar) = 1
             /\ Len(deads_oar[1]) = Len(oar_units)
             /\ \A j \in 1..Len(oar_units) :
                   deads_oar[1][j] = UnitCount(fed[k].rows, 6, oar_units[j])

\* A run that started after earlier runs had filled the living buffer, and
\* whose deaths dataset has one death in the first and one in the third unit.
C29_Witness ==
  /\ op = "create_ready_dicts"
  /\ buf0 >= 3
  /\ Len(fed) >= 3 /\ fed[3].agg = "deads" /\ fed[3].rows = DeadsSample
  /\ deads_oar = << <<1, 0, 1>> >>

\* What is stored under 'kis' is the value the storing request's
\* create_ready_dicts returned, and a request whose run raised has stored nothing.
StoredIsReturned ==
  /\ "kis" \in DOMAIN cache =>
        /\ req[cache["kis"][2]].pc = "done"
        /\ req[cache["kis"][2]].p_kis = cache["kis"]
  /\ \A r \in 1..MaxReq :
        req[r].pc = "raised" =>
          /\ req[r].p_kis = <<>>
          /\ "kis" \in DOMAIN cache => cache["kis"][2] # r

\* A request that reads 'kis' while a result is stored, the all-None one
\* included, runs no pipeline and leaves the cache as it is.
StoredIsKept ==
  \A r \in 1..MaxReq :
    ("kis" \in DOMAIN cache /\ req[r].pc = "get_kis" /\ req'[r] # req[r])
      => (req'[r] = [pc |-> "done", p_kis |-> <<>>] /\ cache' = cache)

\* C30: ensure_cashing stores whatever create_ready_dicts returns, the all-None
\* result of a run without a connection included; a call that comes after such
\* a result was stored neither reruns the pipeline nor replaces the entry while
\* the key is present; and when create_ready_dicts raises, nothing is stored
\* under 'kis'.
C30_DegradedResultIsCachedAndKept ==
  [](StoredIsReturned) /\ [][StoredIsKept]_vars

\* The all-None result of request 1 is in the cache, request 2 came later and
\* left it there without a run, and the run of request 3 raised.
C30_Witness ==
  /\ "kis" \in DOMAIN cache
  /\ cache["kis"] = <<"kis", 1, "all_none">>
  /\ req[2] = [pc |-> "done", p_kis |-> <<>>]
  /\ req[3].pc = "raised"

====
